---- MODULE Spec2Model ----
(***************************************************************************)
(* Lender Service Provider: the valuation engine (estimate_value) and the  *)
(* loan-request lifecycle (create_loan_request, create_byob,               *)
(* update_status) of src/main.py over the records of src/schemas.py.       *)
(*                                                                         *)
(* Optional[T] values are sequences of length at most one: <<>> is None,   *)
(* <<v>> is the value v.  The document store is taken to be connected and  *)
(* each of its operations (insert, find_one, update_one) to be atomic.     *)
(***************************************************************************)
EXTENDS Integers, Sequences, FiniteSets, TLC

\* ------------------------------------------------------------------ bounds
\* number of calendar years after 2024 the wall clock may reach
MaxYearsAhead == 1
\* number of requests that arrive at create_loan_request, create_byob and
\* update_status together; the update_status requests may all overlap
MaxRequests == 4

\* --------------------------------------------------------- program constants
DefaultYear == 2020
MinEstimate == 5000

None == <<>>
Some(v) == <<v>>
IsNone(o) == o = <<>>
Val(o) == o[1]

\* ------------------------------------------------------------------ inputs
Categories == {"vehicle", "electronics"}
Subtypes == {"2-wheeler", "3-wheeler", "4-Wheeler", "laptop", "MOBILE", "other", "tablet"}
Conditions == {None, Some("excellent"), Some("good"), Some("fair"), Some("poor")}
AssetYears == {None, Some(0), Some(2016), Some(2020), Some(2023), Some(2025)}

\* schemas.LoanAsset
LoanAsset == [category : Categories, subtype : Subtypes, make : {None}, model : {None},
              year : AssetYears, condition : Conditions, notes : {None}]

\* str.lower() on the subtype strings in use
Lower(s) ==
  CASE s = "4-Wheeler" -> "4-wheeler"
    [] s = "MOBILE" -> "mobile"
    [] OTHER -> s

\* ------------------------------------------------------- decimal arithmetic
\* A float is modelled by the exact decimal value of the expression that
\* computes it: digits are least-significant first, scale is the number of
\* fractional digits.  Every factor of estimate_value is a finite decimal.
Dec(n, s) == [digits |-> n, scale |-> s]

RECURSIVE NatDigits(_)
NatDigits(n) == IF n = 0 THEN <<>> ELSE <<n % 10>> \o NatDigits(n \div 10)

RECURSIVE MulDigits(_, _, _)
MulDigits(ds, m, carry) ==
  IF ds = <<>> THEN NatDigits(carry)
  ELSE LET t == Head(ds) * m + carry
       IN  <<t % 10>> \o MulDigits(Tail(ds), m, t \div 10)

\* x * (f.num / 10^f.scale)
Times(x, f) == Dec(MulDigits(x.digits, f.num, 0), x.scale + f.scale)

\* x * (f ** n)
RECURSIVE TimesPow(_, _, _)
TimesPow(x, f, n) == IF n = 0 THEN x ELSE TimesPow(Times(x, f), f, n - 1)

Digit(x, i) == IF i >= 1 /\ i <= Len(x.digits) THEN x.digits[i] ELSE 0

RECURSIVE IntFrom(_, _)
IntFrom(x, i) == IF i > Len(x.digits) THEN 0 ELSE Digit(x, i) + 10 * IntFrom(x, i + 1)

\* floor of a non-negative decimal
IntPart(x) == IntFrom(x, x.scale + 1)

\* -1, 0, 1: the fractional part is below, equal to, above one half
HalfCmp(x) ==
  IF x.scale = 0 THEN -1
  ELSE LET f == Digit(x, x.scale)
           rest == \E i \in 1..(x.scale - 1) : Digit(x, i) # 0
       IN  IF f > 5 \/ (f = 5 /\ rest) THEN 1
           ELSE IF f = 5 THEN 0 ELSE -1

\* Python round(x, 0): nearest integer, an exact tie goes to the even one.
\* above: the binary64 value lies just above the decimal it models, so a
\* decimal tie is not a tie of the float and rounds up.
Round(x, above) ==
  LET n == IntPart(x)
      c == HalfCmp(x)
  IN  IF c > 0 THEN n + 1
      ELSE IF c < 0 THEN n
      ELSE IF above \/ n % 2 = 1 THEN n + 1 ELSE n

\* variant: the floor is left out
MaxFloorNoFloor(x) == x

\* max(5000.0, x)
MaxFloor(x) == IF IntPart(x) < MinEstimate THEN Dec(NatDigits(MinEstimate), 0) ELSE x

Max0(n) == IF n < 0 THEN 0 ELSE n

\* ---------------------------------------------------------------- valuation
VehicleKeys == {"2-wheeler", "3-wheeler", "4-wheeler"}
ElectronicsKeys == {"laptop", "mobile", "other"}

base_map(category, key) ==
  CASE category = "vehicle" /\ key = "2-wheeler" -> 80000
    [] category = "vehicle" /\ key = "3-wheeler" -> 200000
    [] category = "vehicle" /\ key = "4-wheeler" -> 600000
    [] category = "electronics" /\ key = "laptop" -> 60000
    [] category = "electronics" /\ key = "mobile" -> 40000
    [] category = "electronics" /\ key = "other" -> 20000

\* variant: an unknown electronics subtype falls back to "laptop"
subtype_key_laptop(asset) ==
  LET k == Lower(asset.subtype)
  IN  IF asset.category = "vehicle"
      THEN (IF k \notin VehicleKeys THEN "2-wheeler" ELSE k)
      ELSE (IF k \notin ElectronicsKeys THEN "laptop" ELSE k)

subtype_key(asset) ==
  LET k == Lower(asset.subtype)
  IN  IF asset.category = "vehicle"
      THEN (IF k \notin VehicleKeys THEN "2-wheeler" ELSE k)
      ELSE (IF k \notin ElectronicsKeys THEN "other" ELSE k)

\* asset.year or 2020
YearOrDefault(asset) ==
  IF IsNone(asset.year) \/ Val(asset.year) = 0 THEN DefaultYear ELSE Val(asset.year)

\* max(0, now.year - int(year)); int() of an integer never raises
Age(asset, current_year) == Max0(current_year - YearOrDefault(asset))

condition_factor(asset) ==
  LET c == IF IsNone(asset.condition) THEN "good" ELSE Val(asset.condition)
  IN  CASE c = "excellent" -> [num |-> 105, scale |-> 2]
        [] c = "good" -> [num |-> 10, scale |-> 1]
        [] c = "fair" -> [num |-> 85, scale |-> 2]
        [] c = "poor" -> [num |-> 7, scale |-> 1]
        [] OTHER -> [num |-> 10, scale |-> 1]

\* the depreciated value before the condition factor
DepreciatedValue(asset, age) ==
  LET base == Dec(NatDigits(base_map(asset.category, subtype_key(asset))), 0)
  IN  IF asset.category = "vehicle"
      THEN TimesPow(Times(base, [num |-> 85, scale |-> 2]), [num |-> 9, scale |-> 1], Max0(age - 1))
      ELSE TimesPow(Times(base, [num |-> 7, scale |-> 1]), [num |-> 75, scale |-> 2], Max0(age))

\* estimated = max(5000.0, value * condition_factor)
Estimated(asset, current_year) ==
  MaxFloor(Times(DepreciatedValue(asset, Age(asset, current_year)), condition_factor(asset)))

\* 0.9 has no binary64 representation and the double nearest to it is larger
\* than 0.9: a vehicle value that went through 0.9 ** n, n >= 1, is a double
\* just above its decimal (the electronics factors give exact doubles on every
\* decimal tie).  This only decides decimal ties.
Binary64Above(asset, current_year) ==
  asset.category = "vehicle" /\ Max0(Age(asset, current_year) - 1) >= 1

Ltv(asset) == IF asset.category = "vehicle" THEN [num |-> 6, scale |-> 1] ELSE [num |-> 5, scale |-> 1]

\* variant: suggested_loan is computed from the rounded estimate
SuggestedBaseRounded(estimated, above) == Dec(NatDigits(Round(estimated, above)), 0)

\* the base from which suggested_loan is rounded: `estimated`, not yet rounded
SuggestedBase(estimated, above) == estimated

estimate_value(asset, current_year) ==
  LET estimated == Estimated(asset, current_year)
      above == Binary64Above(asset, current_year)
      ltv == Ltv(asset)
      suggested == Round(Times(SuggestedBase(estimated, above), ltv), above)
  IN  [estimated_value |-> Round(estimated, above), suggested_loan |-> suggested, ltv |-> ltv]

\* ---------------------------------------------------------- lifecycle inputs
\* schemas.Borrower
Borrowers == {[name |-> "Asha", mobile |-> "9000000001", city |-> "Pune"]}

\* schemas.Lender
Lenders == {[name |-> "Raj", mobile |-> None, company |-> Some("")]}

\* schemas.MediaItem lists
MediaLists == {<<[kind |-> "photo", url |-> "https://cdn/1.jpg", filename |-> "1.jpg",
                  content_type |-> None, size_bytes |-> None]>>}

\* the assets submitted with loan requests
RequestAssets == {a \in LoanAsset : /\ a.category = "vehicle" /\ a.subtype = "4-Wheeler"
                                    /\ a.year = Some(2016) /\ a.condition = Some("good")}

\* main.ModifyOfferInput; offer_amount is tested against None by update_status
ModifyOfferInput == {[offer_amount |-> None, lender_note |-> Some("call me")],
                     [offer_amount |-> Some(0), lender_note |-> None],
                     [offer_amount |-> Some(5000), lender_note |-> Some("")],
                     [offer_amount |-> Some(5000), lender_note |-> Some("call me")]}

\* main.StatusUpdateInput
StatusUpdateInput ==
  [action : {"Approve", "Reject"}, data : {None}]
    \cup [action : {"Modify"}, data : {None} \cup {Some(d) : d \in ModifyOfferInput}]

\* Path parameter req_id.  A string is modelled by a number: 0 is a string
\* that is not a 24-digit hex ObjectId, n >= 1 is the hex string of the n-th
\* ObjectId the store hands out (MaxRequests + 1 is never handed out).
ReqIds == 0..(MaxRequests + 1)

\* ObjectId(req_id) raises bson.errors.InvalidId on a malformed string
ObjectIdValid(req_id) == req_id >= 1

VARIABLES now, est_asset, est_log, store, history, create_resp, calls, last_resp, last_update

vars == <<now, est_asset, est_log, store, history, create_resp, calls, last_resp, last_update>>

est_vars == <<est_asset, est_log>>

\* create_resp and last_resp hold the response the last step sent, if any;
\* last_update holds the update_one the last step applied, if any
NoOutput == create_resp' = None /\ last_resp' = None /\ last_update' = None

\* variant: the year is rounded to the nearest new year
CurrentYearRounded == now.year + now.half

\* datetime.datetime.now().year
CurrentYear == now.year

\* the wall clock advances by half a year
Tick ==
  /\ now.half = 0 \/ now.year < 2024 + MaxYearsAhead
  /\ now' = IF now.half = 0 THEN [now EXCEPT !.half = 1] ELSE [year |-> now.year + 1, half |-> 0]
  /\ UNCHANGED <<est_vars, store, history, calls>>
  /\ NoOutput

\* POST /api/estimate with payload.asset = est_asset; est_log keeps the last
\* two calls (the wall clock at the call and the response)
api_estimate ==
  LET call == [asset |-> est_asset, year |-> now.year, half |-> now.half,
               result |-> estimate_value(est_asset, CurrentYear)]
  IN  /\ est_log' = IF est_log = <<>> THEN <<call>> ELSE <<est_log[Len(est_log)], call>>
      /\ UNCHANGED <<now, est_asset, store, history, calls>>
      /\ NoOutput

\* the requests that have arrived so far
Arrived == Len(store) + Len(calls)

\* ------------------------------------------------------------------- store
\* The collection "loanrequest": store[i] is the document whose _id is the
\* i-th ObjectId handed out; documents are never deleted.
find_one(req_id) == IF req_id \in 1..Len(store) THEN Some(store[req_id]) ELSE None

\* variant: only a Pending document is updated
SetFieldsPendingOnly(doc, update) ==
  IF doc.status = "Pending"
  THEN [f \in DOMAIN doc |-> IF f \in DOMAIN update THEN update[f] ELSE doc[f]]
  ELSE doc

\* update_one(filter, {"$set": update}): the fields of update overwrite the
\* document's, every other field stays
SetFields(doc, update) ==
  [f \in DOMAIN doc |-> IF f \in DOMAIN update THEN update[f] ELSE doc[f]]

\* serialize_doc: "_id" leaves, "id" = str(_id) enters; no field is a datetime
serialize_doc(req_id, doc) ==
  [f \in {"id"} \cup DOMAIN doc |-> IF f = "id" THEN req_id ELSE doc[f]]

\* schemas.LoanRequest(...).model_dump() with the defaults of the class
LoanRequest(borrower, asset, estimation, media, source, lender_id) ==
  [borrower |-> borrower, asset |-> asset, estimation |-> estimation, status |-> "Pending",
   offer_amount |-> None, lender_note |-> None, media |-> media, source |-> source,
   lender_id |-> lender_id]

\* history[i]: which Modify actions have been applied to document i so far
NoHistory == [modified |-> FALSE, noted |-> FALSE]

\* create_document("loanrequest", doc): insert, the new _id is returned
Insert(doc, estimation) ==
  /\ Arrived < MaxRequests
  /\ store' = Append(store, doc)
  /\ history' = Append(history, NoHistory)
  /\ create_resp' = Some([id |-> Len(store) + 1, status |-> doc.status, estimation |-> estimation])
  /\ last_resp' = None
  /\ last_update' = None

\* POST /api/loan-requests
create_loan_request ==
  \E borrower \in Borrowers, asset \in RequestAssets, media \in MediaLists :
    LET estimation == estimate_value(asset, CurrentYear)
    IN  /\ Insert(LoanRequest(borrower, asset, estimation, media, "platform", None), estimation)
        /\ UNCHANGED <<now, est_vars, calls>>

\* payload.lender.company or payload.lender.name or "lender"
LenderId(lender) ==
  IF ~IsNone(lender.company) /\ Val(lender.company) # "" THEN Val(lender.company)
  ELSE IF lender.name # "" THEN lender.name
  ELSE "lender"

\* POST /api/byob
create_byob ==
  \E lender \in Lenders, borrower \in Borrowers, asset \in RequestAssets :
    LET estimation == estimate_value(asset, CurrentYear)
    IN  /\ Insert(LoanRequest(borrower, asset, estimation, <<>>, "byob", Some(LenderId(lender))),
                  estimation)
        /\ UNCHANGED <<now, est_vars, calls>>

\* ------------------------------------------------------------ update_status
\* calls[p] is the p-th update_status request to arrive: where its handler
\* stands, and its arguments while it runs
Done == [pc |-> "done", req_id |-> 0, payload |-> [action |-> "Approve", data |-> None]]

Callers == DOMAIN calls

HTTPException(code, detail) == [code |-> code, detail |-> detail, body |-> None]
Ok(body) == [code |-> 200, detail |-> "", body |-> Some(body)]

Response(p, req_id, payload, resp) ==
  Some([caller |-> p, req_id |-> req_id, payload |-> payload, resp |-> resp])

\* the handler of request p returns or raises
Respond(p, resp) ==
  /\ last_resp' = Response(p, calls[p].req_id, calls[p].payload, resp)
  /\ calls' = [calls EXCEPT ![p] = Done]

\* variant: the offer is tested for truth, so an offer of 0 counts as missing
ModifyLacksOfferFalsy(payload) ==
  payload.action = "Modify"
    /\ (IsNone(payload.data) \/ IsNone(Val(payload.data).offer_amount)
          \/ Val(payload.data).offer_amount = Some(0))

\* Modify without data or without an offer_amount
ModifyLacksOffer(payload) ==
  payload.action = "Modify" /\ (IsNone(payload.data) \/ IsNone(Val(payload.data).offer_amount))

\* the truth value of payload.data.lender_note
HasNote(data) == ~IsNone(data.lender_note) /\ Val(data.lender_note) # ""

EmptyUpdate == [f \in {} |-> None]

\* variant: the note is written whatever it is
NotePatchAlways(data) == [lender_note |-> data.lender_note]

\* the lender_note entry of the update: present only for a non-empty note
NotePatch(data) == IF HasNote(data) THEN [lender_note |-> data.lender_note] ELSE EmptyUpdate

\* variant: Approve and Reject withdraw a standing offer
UpdateOfClearing(payload) ==
  CASE payload.action = "Approve" -> [status |-> "Approved", offer_amount |-> None]
    [] payload.action = "Reject" -> [status |-> "Rejected", offer_amount |-> None]
    [] payload.action = "Modify" ->
         [status |-> "Modified", offer_amount |-> Val(payload.data).offer_amount]
           @@ NotePatch(Val(payload.data))
    [] OTHER -> EmptyUpdate

\* the dict `update` built from the payload
UpdateOf(payload) ==
  CASE payload.action = "Approve" -> [status |-> "Approved"]
    [] payload.action = "Reject" -> [status |-> "Rejected"]
    [] payload.action = "Modify" ->
         [status |-> "Modified", offer_amount |-> Val(payload.data).offer_amount]
           @@ NotePatch(Val(payload.data))
    [] OTHER -> EmptyUpdate

\* a request arrives: ObjectId(req_id), find_one, then the update is built
\* and validated; no store operation lies between find_one and a raise
us_find ==
  /\ Arrived < MaxRequests
  /\ \E req_id \in ReqIds, payload \in StatusUpdateInput :
       LET p == Len(calls) + 1
           raise(e) == /\ last_resp' = Response(p, req_id, payload, e)
                       /\ calls' = Append(calls, Done)
       IN  IF ~ObjectIdValid(req_id)
           THEN raise(HTTPException(500, "Internal Server Error"))
           ELSE IF IsNone(find_one(req_id))
           THEN raise(HTTPException(404, "Request not found"))
           ELSE IF ModifyLacksOffer(payload)
           THEN raise(HTTPException(400, "offer_amount required for Modify"))
           ELSE IF DOMAIN UpdateOf(payload) = {}
           THEN raise(HTTPException(400, "No update provided"))
           ELSE /\ calls' = Append(calls, [pc |-> "found", req_id |-> req_id, payload |-> payload])
                /\ last_resp' = None
  /\ create_resp' = None
  /\ last_update' = None
  /\ UNCHANGED <<now, est_vars, store, history>>

\* update_one(filter, {"$set": update})
us_update(p) ==
  /\ calls[p].pc = "found"
  /\ LET payload == calls[p].payload
         id == calls[p].req_id
     IN  /\ store' = [store EXCEPT ![id] = SetFields(@, UpdateOf(payload))]
         /\ history' = [history EXCEPT ![id] =
              [modified |-> @.modified \/ payload.action = "Modify",
               noted |-> @.noted \/ (payload.action = "Modify" /\ HasNote(Val(payload.data)))]]
         /\ calls' = [calls EXCEPT ![p].pc = "updated"]
         /\ last_update' = Some([caller |-> p, req_id |-> id, payload |-> payload,
                                 before |-> store[id]])
  /\ create_resp' = None
  /\ last_resp' = None
  /\ UNCHANGED <<now, est_vars>>

\* find_one again, serialize_doc, return
us_return(p) ==
  /\ calls[p].pc = "updated"
  /\ Respond(p, Ok(serialize_doc(calls[p].req_id, Val(find_one(calls[p].req_id)))))
  /\ create_resp' = None
  /\ last_update' = None
  /\ UNCHANGED <<now, est_vars, store, history>>

us_update_any == \E p \in Callers : us_update(p)
us_return_any == \E p \in Callers : us_return(p)

\* PATCH /api/loan-requests/{req_id}/status
update_status == us_find \/ us_update_any \/ us_return_any

\* ----------------------------------------------------------- specifications
Init ==
  /\ now = [year |-> 2024, half |-> 0]
  /\ est_asset \in RequestAssets
  /\ est_log = <<>>
  /\ store = <<>>
  /\ history = <<>>
  /\ create_resp = None
  /\ calls = <<>>
  /\ last_resp = None
  /\ last_update = None

Next == create_loan_request \/ create_byob \/ us_find \/ us_update_any \/ us_return_any

\* the loan-request lifecycle
Spec == Init /\ [][Next]_vars

\* the valuation engine alone: any asset, called at any time
InitEst ==
  /\ now = [year |-> 2024, half |-> 0]
  /\ est_asset \in LoanAsset
  /\ est_log = <<>>
  /\ store = <<>>
  /\ history = <<>>
  /\ create_resp = None
  /\ calls = <<>>
  /\ last_resp = None
  /\ last_update = None

NextEst == Tick \/ api_estimate

SpecEst == InitEst /\ [][NextEst]_vars

\* ------------------------------------------------------------------ claims
Ids == 1..Len(store)
IsSet(o) == o # None

\* the status an action asks for
TargetStatus(action) ==
  CASE action = "Approve" -> "Approved"
    [] action = "Reject" -> "Rejected"
    [] action = "Modify" -> "Modified"

\* the payload carries an offer_amount
OfferGiven(payload) == ~IsNone(payload.data) /\ ~IsNone(Val(payload.data).offer_amount)

\* the handler of request p takes a step
Steps(p) == calls'[p] # calls[p]

\* C1 as stated: offer_amount and lender_note are both set exactly on the
\* records a Modify has been applied to, and both absent on all others.
C1_Original ==
  \A i \in Ids :
    /\ history[i].modified => IsSet(store[i].offer_amount) /\ IsSet(store[i].lender_note)
    /\ ~history[i].modified => ~IsSet(store[i].offer_amount) /\ ~IsSet(store[i].lender_note)

\* C1: in every reachable state, for every loan request record, offer_amount
\* is set if and only if a Modify has been applied to it, and lender_note is
\* set if and only if a Modify carrying a non-empty lender_note has been
\* applied to it; both are absent on a freshly created record and on one
\* only ever Approved or Rejected.
C1_OfferIffModified ==
  \A i \in Ids :
    /\ IsSet(store[i].offer_amount) <=> history[i].modified
    /\ IsSet(store[i].lender_note) <=> history[i].noted
    /\ history[i].noted => history[i].modified

C1_Witness ==
  \E i \in Ids :
    /\ history[i].modified /\ ~history[i].noted
    /\ IsSet(store[i].offer_amount) /\ ~IsSet(store[i].lender_note)

C3_NotFound ==
  last_resp # None =>
    (Val(last_resp).req_id \notin Ids => Val(last_resp).resp.code = 404)

\* C4: there is no transition guard: whatever the current status of an
\* existing record, Approve, Reject and Modify with an offer_amount are
\* applied and leave the status the action asks for.
C4_NoGuard ==
  [][/\ (last_resp' # None /\ Val(last_resp').req_id \in Ids
           /\ (Val(last_resp').payload.action = "Modify" => OfferGiven(Val(last_resp').payload))) =>
          Val(last_resp').resp.code = 200
     /\ \A p \in Callers :
          (calls[p].pc = "found" /\ Steps(p)) =>
            /\ calls'[p].pc = "updated"
            /\ store'[calls[p].req_id].status = TargetStatus(calls[p].payload.action)]_vars

C4_Witness ==
  /\ last_update # None
  /\ Val(last_update).payload.action = "Approve"
  /\ Val(last_update).before.status = "Approved"
  /\ store[Val(last_update).req_id].status = "Approved"

\* C5: the record a successful update_status returns has the status its own
\* action set and, for Modify, the offer_amount it supplied, also when calls
\* on the same request id interleave.
C5_ReturnsOwnUpdate ==
  last_resp # None =>
    LET r == Val(last_resp)
    IN  r.resp.code = 200 =>
          /\ Val(r.resp.body).status = TargetStatus(r.payload.action)
          /\ r.payload.action = "Modify" =>
               Val(r.resp.body).offer_amount = Val(r.payload.data).offer_amount

\* the fields an action may write
PatchFields(payload) ==
  IF payload.action = "Modify"
  THEN {"status", "offer_amount"}
         \cup (IF Val(payload.data).lender_note \in {None, Some("")} THEN {} ELSE {"lender_note"})
  ELSE {"status"}

\* C9: a step changes a stored record only as the update_one of a call on
\* that record's id, and then only in the fields of the action's patch:
\* status for Approve and Reject; status, offer_amount and, for a non-empty
\* note, lender_note for Modify.  No record disappears or changes identity.
C9_Frame ==
  [][/\ Len(store') >= Len(store)
     /\ \A i \in Ids :
          store'[i] # store[i] =>
            \E p \in Callers :
              /\ calls[p].pc = "found" /\ calls'[p].pc = "updated" /\ calls[p].req_id = i
              /\ DOMAIN store'[i] = DOMAIN store[i]
              /\ \A f \in DOMAIN store[i] :
                   store'[i][f] # store[i][f] => f \in PatchFields(calls[p].payload)]_vars

C9_Witness ==
  /\ last_update # None
  /\ Len(store) = 2
  /\ Val(last_update).payload.action = "Modify"
  /\ Val(Val(last_update).payload.data).lender_note = Some("")
  /\ Val(last_update).before.lender_note = Some("call me")
  /\ store[Val(last_update).req_id].lender_note = Some("call me")
  /\ store[Val(last_update).req_id].offer_amount = Some(5000)

\* C6: every estimate has estimated_value >= 5000 and
\* 0 <= suggested_loan <= estimated_value, with ltv 0.6 for a vehicle and 0.5
\* for electronics.
C6_EstimateBounds ==
  \A i \in 1..Len(est_log) :
    LET c == est_log[i]
    IN  /\ c.result.estimated_value >= 5000
        /\ 0 <= c.result.suggested_loan
        /\ c.result.suggested_loan <= c.result.estimated_value
        /\ c.result.ltv = (IF c.asset.category = "vehicle" THEN [num |-> 6, scale |-> 1]
                                                          ELSE [num |-> 5, scale |-> 1])

C6_Witness ==
  \E i \in 1..Len(est_log) :
    /\ est_log[i].result.estimated_value = 5000
    /\ est_log[i].result.suggested_loan = 2500
    /\ est_log[i].asset.condition = Some("poor")

\* C7 as stated: two calls with the identical asset return identical
\* results whatever the wall clock says at each call.
C7_Original ==
  Len(est_log) = 2 => est_log[1].result = est_log[2].result

\* C7: estimate is a function of the asset and the calendar year of the
\* call: two calls with the identical asset made in the same calendar year
\* return identical estimated_value, suggested_loan and ltv.
C7_SameYearSameResult ==
  (Len(est_log) = 2 /\ est_log[1].year = est_log[2].year) =>
    est_log[1].result = est_log[2].result

C7_Witness ==
  /\ Len(est_log) = 2
  /\ est_log[1].year = est_log[2].year
  /\ est_log[1].half # est_log[2].half
  /\ est_log[2].result.estimated_value > 5000

\* electronics, unrecognised subtype "tablet", no year, condition good
TabletAsset ==
  [category |-> "electronics", subtype |-> "tablet", make |-> None, model |-> None,
   year |-> None, condition |-> Some("good"), notes |-> None]

\* C8 as stated: the tablet evaluated in 2024 is worth 5537 with a suggested
\* loan of 2769.
C8_Original ==
  \A i \in 1..Len(est_log) :
    (est_log[i].asset = TabletAsset /\ est_log[i].year = 2024) =>
      est_log[i].result = [estimated_value |-> 5537, suggested_loan |-> 2769,
                           ltv |-> [num |-> 5, scale |-> 1]]

\* C8: the tablet evaluated in 2024 has base 20000 and age 4; its
\* depreciated value 20000 * 0.70 * 0.75^4 = 4429.6875 is below the floor,
\* so estimated_value is 5000, suggested_loan 2500 and ltv 0.5.
C8_TabletAtFloor ==
  \A i \in 1..Len(est_log) :
    (est_log[i].asset = TabletAsset /\ est_log[i].year = 2024) =>
      /\ base_map("electronics", "other") = 20000
      /\ Age(est_log[i].asset, est_log[i].year) = 4
      /\ est_log[i].result = [estimated_value |-> 5000, suggested_loan |-> 2500,
                              ltv |-> [num |-> 5, scale |-> 1]]

C8_Witness ==
  \E i \in 1..Len(est_log) : est_log[i].asset = TabletAsset /\ est_log[i].year = 2024

\* round(E * ltv) for the returned, rounded estimated_value E
LoanFromRounded(c) ==
  Round(Times(Dec(NatDigits(c.result.estimated_value), 0), Ltv(c.asset)), FALSE)

\* C10 as stated: suggested_loan is round(E * ltv) for the returned, already
\* rounded estimated_value E.
C10_Original ==
  \A i \in 1..Len(est_log) : est_log[i].result.suggested_loan = LoanFromRounded(est_log[i])

\* C10: suggested_loan is round(estimated * ltv) for the floored estimate
\* before it is rounded; estimated_value is that same estimate, rounded
\* separately.
C10_LoanFromUnrounded ==
  \A i \in 1..Len(est_log) :
    LET c == est_log[i]
        above == Binary64Above(c.asset, c.year)
    IN  /\ c.result.suggested_loan = Round(Times(Estimated(c.asset, c.year), Ltv(c.asset)), above)
        /\ c.result.estimated_value = Round(Estimated(c.asset, c.year), above)

C10_Witness ==
  \E i \in 1..Len(est_log) : est_log[i].result.suggested_loan # LoanFromRounded(est_log[i])

====
